---- MODULE Spec2Model ----
(***************************************************************************)
(* Model of starlark/src/docs/markdown.rs (the Markdown renderer of the    *)
(* documentation model) and starlark/src/typing/macro_support.rs (the      *)
(* projections of a type union used for *args / **kwargs).                 *)
(*                                                                         *)
(* A text (Rust String / &str) is a sequence of characters.  A character   *)
(* is a one-character string, except for the two characters that are       *)
(* named: BQ, the backtick (it cannot be written inside a TLA+ string),    *)
(* and EACUTE, a character whose UTF-8 encoding takes two bytes.            *)
(* Option<T> is a sequence of length 0 (None) or 1 (Some).                 *)
(***************************************************************************)
EXTENDS Integers, Sequences, FiniteSets, TLC

VARIABLES op, arg, out

vars == <<op, arg, out>>

-----------------------------------------------------------------------------
(* Bounds of the explored inputs. *)

MaxParams == 4

MaxMembers == 3

MaxUnion == 3

MaxNameLen == 76

-----------------------------------------------------------------------------
(* Characters and texts. *)

BQ == "U+0060"

EACUTE == "U+00E9"

Ascii ==
  <<" ", "!", "\"", "#", "$", "%", "&", "'", "(", ")", "*", "+", ",", "-", ".", "/",
    "0", "1", "2", "3", "4", "5", "6", "7", "8", "9", ":", ";", "<", "=", ">", "?",
    "@", "A", "B", "C", "D", "E", "F", "G", "H", "I", "J", "K", "L", "M", "N", "O",
    "P", "Q", "R", "S", "T", "U", "V", "W", "X", "Y", "Z", "[", "\\", "]", "^", "_",
    BQ, "a", "b", "c", "d", "e", "f", "g", "h", "i", "j", "k", "l", "m", "n", "o",
    "p", "q", "r", "s", "t", "u", "v", "w", "x", "y", "z", "{", "|", "}", "~">>

\* The code point of a character; str::cmp compares UTF-8 bytes, which is
\* the order of the code points.
CodePoint(c) ==
  IF c = "\n" THEN 10
  ELSE IF c = "\r" THEN 13
  ELSE IF c = EACUTE THEN 233
  ELSE 31 + (CHOOSE i \in 1..Len(Ascii) : Ascii[i] = c)

\* The number of bytes of the UTF-8 encoding of a character.
len_utf8(c) == IF CodePoint(c) < 128 THEN 1 ELSE 2

RECURSIVE str_len(_)
\* str::len: the length of a text in bytes.
str_len(s) ==
  IF s = <<>> THEN 0
  ELSE IF Len(s) = 1 THEN len_utf8(s[1])
  ELSE str_len(SubSeq(s, 1, Len(s) \div 2))
         + str_len(SubSeq(s, Len(s) \div 2 + 1, Len(s)))

RECURSIVE str_cmp_less(_, _)
\* str::cmp(l, r) = Ordering::Less: lexicographic order of the bytes.
str_cmp_less(l, r) ==
  IF r = <<>> THEN FALSE
  ELSE IF l = <<>> THEN TRUE
  ELSE IF Head(l) /= Head(r) THEN CodePoint(Head(l)) < CodePoint(Head(r))
  ELSE str_cmp_less(Tail(l), Tail(r))

RECURSIVE str_replace(_, _, _)
\* str::replace(from, to) for a one-character pattern.
str_replace(s, from, to) ==
  IF s = <<>> THEN <<>>
  ELSE (IF Head(s) = from THEN to ELSE <<Head(s)>>) \o str_replace(Tail(s), from, to)

RECURSIVE split_newline(_, _)
\* The pieces of a text between its "\n" characters; cur is the piece
\* being read.
split_newline(s, cur) ==
  IF s = <<>> THEN <<cur>>
  ELSE IF Head(s) = "\n" THEN <<cur>> \o split_newline(Tail(s), <<>>)
  ELSE split_newline(Tail(s), Append(cur, Head(s)))

strip_cr(l) ==
  IF l /= <<>> /\ l[Len(l)] = "\r" THEN SubSeq(l, 1, Len(l) - 1) ELSE l

\* The lines among the pieces of a text: every piece but an empty last one.
\* (lines_of_pieces is the second half of str::lines.)
\* str::lines: the lines of a text, split at "\n" (a "\r" before it is
\* dropped); the empty piece after a final "\n" is not a line, and the
\* empty text has no line.
lines_of_pieces(pieces) ==
  [i \in 1..(IF pieces[Len(pieces)] = <<>> THEN Len(pieces) - 1 ELSE Len(pieces)) |->
     IF i < Len(pieces) THEN strip_cr(pieces[i]) ELSE pieces[i]]

lines(s) == lines_of_pieces(split_newline(s, <<>>))

RECURSIVE join(_, _)
\* [String]::join(sep)
join(texts, sep) ==
  IF texts = <<>> THEN <<>>
  ELSE IF Len(texts) = 1 THEN texts[1]
  ELSE texts[1] \o sep \o join(Tail(texts), sep)

\* writeln!(buf, "{line}")
writeln(buf, line) == buf \o line \o <<"\n">>

None == <<>>

Some(x) == <<x>>

is_some(o) == Len(o) = 1

is_none(o) == Len(o) = 0

unwrap(o) == o[1]

-----------------------------------------------------------------------------
(* Types: a Ty is a union, the sequence of its TyBasic alternatives. *)

TyAnyBasic == [tag |-> "Any"]

TyName(n) == [tag |-> "Name", name |-> n]

TyTuple(item) == [tag |-> "Tuple", item |-> item]

TyDict(k, v) == [tag |-> "Dict", key |-> k, value |-> v]

\* Ty::any()
Ty_any == <<TyAnyBasic>>

\* Ty::is_any
is_any(t) == t = Ty_any

\* Ty::iter_union: the alternatives of a union.
iter_union(t) == t

T_int == <<TyName(<<"i", "n", "t">>)>>

T_str == <<TyName(<<"s", "t", "r">>)>>

T_bool == <<TyName(<<"b", "o", "o", "l">>)>>

RECURSIVE ty_display(_)
\* impl Display for Ty
ty_display(t) ==
  LET basic(b) ==
        CASE b.tag = "Any" -> <<"t", "y", "p", "i", "n", "g", ".", "A", "n", "y">>
          [] b.tag = "Name" -> b.name
          [] b.tag = "Tuple" ->
               <<"t", "u", "p", "l", "e", "[">> \o ty_display(b.item)
                 \o <<",", " ", ".", ".", ".", "]">>
          [] b.tag = "Dict" ->
               <<"d", "i", "c", "t", "[">> \o ty_display(b.key) \o <<",", " ">>
                 \o ty_display(b.value) \o <<"]">>
  IN join([i \in 1..Len(t) |-> basic(t[i])], <<" ", "|", " ">>)

-----------------------------------------------------------------------------
(* DocString and the three ways of rendering it. *)

DocString(summary, details) == [summary |-> summary, details |-> details]

\* render_doc_string with a slip: without details, Details mode falls back
\* to the summary.
render_doc_string_details_fallback(opts, string) ==
  IF is_none(string) THEN None
  ELSE CASE opts = "Summary" -> Some(unwrap(string).summary)
         [] opts = "Details" ->
              IF is_some(unwrap(string).details) THEN unwrap(string).details
              ELSE Some(unwrap(string).summary)
         [] opts = "Combined" ->
              Some(IF is_some(unwrap(string).details)
                   THEN unwrap(string).summary \o <<"\n", "\n">> \o unwrap(unwrap(string).details)
                   ELSE unwrap(string).summary)

\* render_doc_string(opts, string): Option<String>
render_doc_string(opts, string) ==
  IF is_none(string) THEN None
  ELSE LET d == unwrap(string) IN
       CASE opts = "Summary" -> Some(d.summary)
         [] opts = "Details" -> d.details
         [] opts = "Combined" ->
              Some(IF is_some(d.details)
                   THEN d.summary \o <<"\n", "\n">> \o unwrap(d.details)
                   ELSE d.summary)

\* escape_name(name)
escape_name(name) == str_replace(name, "_", <<"\\", "_">>)

\* render_code_block(contents)
render_code_block(contents) ==
  <<BQ, BQ, BQ, "p", "y", "t", "h", "o", "n", "\n">> \o contents \o <<"\n", BQ, BQ, BQ>>

\* if let Some(text) = opt { body.push_str(sep); body.push_str(&text) }
push_some(body, sep, opt) ==
  IF is_some(opt) THEN body \o sep \o unwrap(opt) ELSE body

\* render_property with a slip: the name is escaped inside the code block
\* as well.
render_property_escaped_prototype(name, property) ==
  push_some(
    push_some(
      <<"#", "#", " ">> \o escape_name(name) \o <<"\n", "\n">>
        \o render_code_block(escape_name(name) \o <<":", " ">> \o ty_display(property.typ)),
      <<"\n", "\n">>, render_doc_string("Summary", property.docs)),
    <<"\n", "\n">>, render_doc_string("Details", property.docs))

\* render_property(name, property)
render_property(name, property) ==
  push_some(
    push_some(
      <<"#", "#", " ">> \o escape_name(name) \o <<"\n", "\n">>
        \o render_code_block(name \o <<":", " ">> \o ty_display(property.typ)),
      <<"\n", "\n">>, render_doc_string("Summary", property.docs)),
    <<"\n", "\n">>, render_doc_string("Details", property.docs))

-----------------------------------------------------------------------------
(* DocParam, DocParams and DocFunction. *)

DocParam(name, kind, docs, typ) ==
  [name |-> name, kind |-> kind, docs |-> docs, typ |-> typ]

DocFunction(params, ret_typ, ret_docs, docs) ==
  [params |-> params, ret |-> [typ |-> ret_typ, docs |-> ret_docs], docs |-> docs]

DocProperty(typ, docs) == [typ |-> typ, docs |-> docs]

\* DocParams::doc_params: every parameter of the signature, in order.
doc_params(params) == params

starred_name(p) ==
  CASE p.kind = "args" -> <<"*">> \o p.name
    [] p.kind = "kwargs" -> <<"*", "*">> \o p.name
    [] OTHER -> p.name

\* DocParams::doc_params_with_starred_names: every parameter with its name
\* as written in the signature.
doc_params_with_starred_names(params) ==
  [i \in 1..Len(params) |-> <<starred_name(params[i]), params[i]>>]

\* raw_type_prefix with a slip: the unconstrained type is written too.
raw_type_prefix_always(prefix, t) == prefix \o ty_display(t)

\* raw_type_prefix(prefix, t)
raw_type_prefix(prefix, t) ==
  IF is_any(t) THEN <<>> ELSE prefix \o ty_display(t)

\* The text of one parameter in a signature.
render_param_code(p) == starred_name(p) \o raw_type_prefix(<<":", " ">>, p.typ)

RECURSIVE concat(_)
concat(texts) == IF texts = <<>> THEN <<>> ELSE Head(texts) \o concat(Tail(texts))

\* DocParams::render_code(indent): the parameters on one line when indent
\* is None, else one per line, each line indented and ended by ",\n".
render_code(params, indent) ==
  IF is_none(indent)
  THEN join([i \in 1..Len(params) |-> render_param_code(params[i])], <<",", " ">>)
  ELSE concat([i \in 1..Len(params) |->
                 unwrap(indent) \o render_param_code(params[i]) \o <<",", "\n">>])

MAX_ARGS_BEFORE_MULTILINE == 3

MAX_LENGTH_BEFORE_MULTILINE == 80

\* prototype_layout with a slip: only the documented parameters are
\* counted.
prototype_layout_documented(f, ret_type, prefix, single_line_result) ==
  IF \/ Len(SelectSeq(doc_params(f.params), LAMBDA p : is_some(p.docs)))
          > MAX_ARGS_BEFORE_MULTILINE
     \/ str_len(single_line_result) > MAX_LENGTH_BEFORE_MULTILINE
  THEN prefix \o <<"(", "\n">> \o render_code(f.params, Some(<<" ", " ", " ", " ">>))
         \o <<")">> \o ret_type
  ELSE single_line_result

\* The if of render_function_prototype, given ret_type, prefix and
\* single_line_result.
prototype_layout(f, ret_type, prefix, single_line_result) ==
  IF \/ Len(doc_params(f.params)) > MAX_ARGS_BEFORE_MULTILINE
     \/ str_len(single_line_result) > MAX_LENGTH_BEFORE_MULTILINE
  THEN prefix \o <<"(", "\n">> \o render_code(f.params, Some(<<" ", " ", " ", " ">>))
         \o <<")">> \o ret_type
  ELSE single_line_result

\* The lets of render_function_prototype, given ret_type and prefix.
prototype_of(f, ret_type, prefix) ==
  prototype_layout(f, ret_type, prefix,
                   prefix \o <<"(">> \o render_code(f.params, None) \o <<")">> \o ret_type)

\* render_function_prototype(function_name, f)
render_function_prototype(function_name, f) ==
  prototype_of(f, raw_type_prefix(<<" ", "-", ">", " ">>, f.ret.typ),
               <<"d", "e", "f", " ">> \o function_name)

RECURSIVE write_lines_unindented(_, _)
\* write_lines with a slip: the further lines are not indented.
write_lines_unindented(param_list, ls) ==
  IF ls = <<>> THEN param_list
  ELSE write_lines_unindented(writeln(param_list, Head(ls)), Tail(ls))

RECURSIVE write_lines(_, _)
\* for line in lines_iter { writeln!(param_list, "  {line}") }
write_lines(param_list, ls) ==
  IF ls = <<>> THEN param_list
  ELSE write_lines(writeln(param_list, <<" ", " ">> \o Head(ls)), Tail(ls))

\* Option<String>::unwrap_or_default
unwrap_or_default(o) == IF is_some(o) THEN unwrap(o) ELSE <<>>

\* The bullet of one parameter, given the lines of its docs.
write_parameter(param_list, name, lines_iter) ==
  IF lines_iter /= <<>>
  THEN write_lines(
         writeln(param_list, <<"*", " ", BQ>> \o name \o <<BQ, ":", " ">> \o Head(lines_iter)),
         Tail(lines_iter))
  ELSE writeln(param_list, <<"*", " ", BQ>> \o name \o <<BQ>>)

\* One iteration of the loop of render_function_parameters for a documented
\* parameter: param_list is the text written so far.
render_one_parameter(param_list, name, p) ==
  write_parameter(param_list, name,
                  lines(unwrap_or_default(render_doc_string("Combined", p.docs))))

RECURSIVE render_function_parameters_from(_, _)
\* The loop of render_function_parameters, with param_list the Option
\* accumulated so far.
render_function_parameters_from(param_list, params) ==
  IF params = <<>> THEN param_list
  ELSE IF is_none(Head(params)[2].docs)
  THEN render_function_parameters_from(param_list, Tail(params))
  ELSE render_function_parameters_from(
         Some(render_one_parameter(unwrap_or_default(param_list),
                                   Head(params)[1], Head(params)[2])),
         Tail(params))

\* render_function_parameters(params): Option<String>
render_function_parameters(params) == render_function_parameters_from(None, params)

\* push_details with a slip: the heading is written whenever there are
\* details.
push_details_always_heading(body, parameter_docs, return_docs, details) ==
  IF is_some(details)
  THEN body \o <<"\n", "\n", "#", "#", "#", "#", " ", "D", "e", "t", "a", "i", "l", "s", "\n", "\n">>
         \o unwrap(details)
  ELSE body

\* The last if of render_function: the details, under their own heading
\* when the parameters or the return value were documented.
push_details(body, parameter_docs, return_docs, details) ==
  IF is_some(details)
  THEN (IF is_some(parameter_docs) \/ is_some(return_docs)
        THEN body \o <<"\n", "\n", "#", "#", "#", "#", " ", "D", "e", "t", "a", "i", "l", "s", "\n", "\n">>
        ELSE body \o <<"\n", "\n">>)
         \o unwrap(details)
  ELSE body

\* The body of render_function, given its let-bound values.
function_body(header, summary, details, parameter_docs, return_docs) ==
  push_details(
    push_some(
      push_some(
        push_some(header, <<"\n", "\n">>, summary),
        <<"\n", "\n", "#", "#", "#", "#", " ", "P", "a", "r", "a", "m", "e", "t", "e", "r", "s", "\n", "\n">>,
        parameter_docs),
      <<"\n", "\n", "#", "#", "#", "#", " ", "R", "e", "t", "u", "r", "n", "s", "\n", "\n">>,
      return_docs),
    parameter_docs, return_docs, details)

\* render_function(name, function, include_header)
render_function(name, function, include_header) ==
  function_body(
    (IF include_header THEN <<"#", "#", " ">> \o escape_name(name) \o <<"\n", "\n">>
     ELSE <<>>)
      \o render_code_block(render_function_prototype(name, function)),
    render_doc_string("Summary", function.docs),
    render_doc_string("Details", function.docs),
    render_function_parameters(doc_params_with_starred_names(function.params)),
    render_doc_string("Combined", function.ret.docs))

\* render_doc_member(name, item)
render_doc_member(name, item) ==
  CASE item.tag = "Function" -> render_function(name, item.f, TRUE)
    [] item.tag = "Property" -> render_property(name, item.p)

RECURSIVE insert_by_name(_, _)
\* Insert one (name, member) pair into a sorted sequence, after the pairs
\* that do not compare greater.
insert_by_name(sorted, m) ==
  IF sorted = <<>> THEN <<m>>
  ELSE IF str_cmp_less(m[1], Head(sorted)[1]) THEN <<m>> \o sorted
  ELSE <<Head(sorted)>> \o insert_by_name(Tail(sorted), m)

\* sorted_by_name with a slip: the members stay in the order of the map.
sorted_by_name_unsorted(members) == members

RECURSIVE sorted_by_name(_)
\* .sorted_by(|(l_m, _), (r_m, _)| l_m.cmp(r_m)): a stable sort by name.
sorted_by_name(members) ==
  IF members = <<>> THEN <<>>
  ELSE insert_by_name(sorted_by_name(SubSeq(members, 1, Len(members) - 1)),
                      members[Len(members)])

\* .map(|(child, member)| render_doc_member(&format!("{prefix}{child}"), &member))
map_render_doc_member(prefix, sorted) ==
  [i \in 1..Len(sorted) |-> render_doc_member(prefix \o sorted[i][1], sorted[i][2])]

\* render_members(name, docs, prefix, members, after_summary)
render_members(name, docs, prefix, members, after_summary) ==
  <<"#", " ">> \o name
    \o push_some(<<>>, <<"\n", "\n">>, render_doc_string("Combined", docs))
    \o <<"\n", "\n">>
    \o join(after_summary \o map_render_doc_member(prefix, sorted_by_name(members)),
            <<"\n", "\n", "-", "-", "-", "\n", "\n">>)

\* render_doc_type with a slip: the constructor gets a heading of its own.
render_doc_type_with_heading(name, prefix, t) ==
  render_members(name, t.docs, prefix, t.members,
                 IF is_some(t.constructor)
                 THEN Some(render_function(name, unwrap(t.constructor), TRUE))
                 ELSE None)

\* render_doc_type(name, prefix, t)
render_doc_type(name, prefix, t) ==
  render_members(name, t.docs, prefix, t.members,
                 IF is_some(t.constructor)
                 THEN Some(render_function(name, unwrap(t.constructor), FALSE))
                 ELSE None)

\* DocItem::try_as_member_with_collapsed_object(..).ok()
try_as_member_with_collapsed_object(item) ==
  IF item.tag = "Member" THEN Some(item.member) ELSE None

RECURSIVE filter_map_members(_)
\* m.members.iter().filter_map(..): the members of a module that are
\* functions or properties, in the order of the map.
filter_map_members(members) ==
  IF members = <<>> THEN <<>>
  ELSE (IF is_some(try_as_member_with_collapsed_object(Head(members)[2]))
        THEN <<(<<Head(members)[1],
                  unwrap(try_as_member_with_collapsed_object(Head(members)[2]))>>)>>
        ELSE <<>>)
         \o filter_map_members(Tail(members))

\* render_doc_item(name, item)
render_doc_item(name, item) ==
  CASE item.tag = "Module" ->
         render_members(name, item.m.docs, <<>>, filter_map_members(item.m.members), None)
    [] item.tag = "Type" ->
         render_doc_type(<<BQ>> \o name \o <<BQ, " ", "t", "y", "p", "e">>,
                         name \o <<".">>, item.o)
    [] item.tag = "Member" /\ item.member.tag = "Function" ->
         render_function(name, item.member.f, TRUE)
    [] item.tag = "Member" /\ item.member.tag = "Property" ->
         render_property(name, item.member.p)

\* render_doc_param(starred_name, item)
render_doc_param(name, item) ==
  unwrap_or_default(render_function_parameters(<<(<<name, item>>)>>))

-----------------------------------------------------------------------------
(* typing/macro_support.rs *)

RECURSIVE push_unique(_, _)
\* Append to xs the elements of ys that it does not contain yet.
push_unique(xs, ys) ==
  IF ys = <<>> THEN xs
  ELSE IF \E i \in 1..Len(xs) : xs[i] = Head(ys) THEN push_unique(xs, Tail(ys))
  ELSE push_unique(Append(xs, Head(ys)), Tail(ys))

RECURSIVE Ty_unions_from(_, _)
Ty_unions_from(acc, xs) ==
  IF xs = <<>> THEN acc
  ELSE Ty_unions_from(push_unique(acc, iter_union(Head(xs))), Tail(xs))

\* Ty::unions(xs): the union of the given types: their alternatives, each
\* once, in the order of first appearance.
Ty_unions(xs) == Ty_unions_from(<<>>, xs)

\* TyTuple::item_ty: the type of the elements of a tuple type.
item_ty(b) == b.item

\* ArcTy::to_ty
to_ty(t) == t

\* unpack_args_item_ty with a slip: an alternative that is no tuple
\* contributes nothing.
unpack_args_item_ty_skipping(ty) ==
  Ty_unions([i \in 1..Len(iter_union(ty)) |->
               IF iter_union(ty)[i].tag = "Tuple"
               THEN item_ty(iter_union(ty)[i]) ELSE <<>>])

\* unpack_args_item_ty(ty)
unpack_args_item_ty(ty) ==
  Ty_unions([i \in 1..Len(iter_union(ty)) |->
               IF iter_union(ty)[i].tag = "Tuple"
               THEN item_ty(iter_union(ty)[i]) ELSE Ty_any])

\* unpack_kwargs_value_ty(ty)
unpack_kwargs_value_ty(ty) ==
  Ty_unions([i \in 1..Len(iter_union(ty)) |->
               IF iter_union(ty)[i].tag = "Dict"
               THEN to_ty(iter_union(ty)[i].value) ELSE Ty_any])

-----------------------------------------------------------------------------
(* The inputs the entry points are applied to. *)

DSOpts == {"Summary", "Details", "Combined"}

SummaryTexts ==
  { <<"M", "a", "x", "i", "m", "u", "m", " ", "s", "i", "z", "e", ".">>,
    <<"S", "u", "m">> }

DetailsTexts ==
  { <<"D", "1", "\n", "D", "2">>,
    <<"M", "o", "r", "e", ".", "\n", "\n", "E", "n", "d">> }

\* Option<DocString>: the builder of the documentation trims its texts, so
\* a summary is not empty and no text ends with a line break.
OptDocStrings ==
  {None}
    \cup {Some(DocString(s, None)) : s \in SummaryTexts}
    \cup {Some(DocString(s, Some(d))) : s \in SummaryTexts, d \in DetailsTexts}

DocSummaryOnly == Some(DocString(<<"S", "u", "m">>, None))

DocWithDetails ==
  Some(DocString(<<"B", "u", "i", "l", "d", "s", ".">>, Some(<<"D", "1", "\n", "D", "2">>)))

FewDocStrings == {None, DocSummaryOnly, DocWithDetails}

MaxEscLen == 4

RECURSIVE TextsOver(_, _)
\* The texts of at most n characters of the set chars.
TextsOver(chars, n) ==
  IF n = 0 THEN {<<>>}
  ELSE LET shorter == TextsOver(chars, n - 1)
       IN shorter \cup {Append(t, c) : t \in shorter, c \in chars}

EscNames == TextsOver({"a", "_", "."}, MaxEscLen)

PropNames ==
  { <<"m", "a", "x", "_", "s", "i", "z", "e">>, <<"f">>, <<"T", ".", "a", "_", "b">> }

PropTypes == {Ty_any, T_int, T_int \o T_str}

Digits == <<"1", "2", "3", "4", "5", "6", "7", "8", "9">>

ParamName(i) == <<"p", Digits[i]>>

ParamDocs ==
  << Some(DocString(<<"x", ".">>, None)),
     Some(DocString(<<"x", ".">>, Some(<<"M", "o", "r", "e", ".", "\n", "\n", "E", "n", "d">>))) >>

\* A parameter list of n parameters: those of D are documented with
\* ParamDocs[pdoc]; with variadic the last two are *args and **kwargs; with
\* typed the odd ones have type int, every other one is unconstrained.
ParamsOf(n, D, pdoc, variadic, typed) ==
  [i \in 1..n |->
     DocParam(ParamName(i),
              IF variadic /\ i = n THEN "kwargs"
              ELSE IF variadic /\ i = n - 1 THEN "args"
              ELSE "pos_or_named",
              IF i \in D THEN ParamDocs[pdoc] ELSE None,
              IF typed /\ i % 2 = 1 THEN T_int ELSE Ty_any)]

ParamLists ==
  {ParamsOf(n, D, pdoc, variadic, TRUE) :
     n \in 0..MaxParams, D \in SUBSET (1..MaxParams),
     pdoc \in {1, 2}, variadic \in BOOLEAN}

FuncNames == { <<"f">>, <<"g", "_", "h">> }

RetSpecs ==
  { [typ |-> Ty_any, docs |-> None],
    [typ |-> T_int, docs |-> Some(DocString(<<"R", "e", "s", "u", "l", "t", ".">>, None))] }

Functions ==
  {[params |-> ps, ret |-> r, docs |-> d] :
     ps \in ParamLists, r \in RetSpecs, d \in FewDocStrings}

\* A name of k characters; with wide its last character takes two bytes.
PadName(k, wide) ==
  [i \in 1..k |-> IF wide /\ i = k THEN EACUTE ELSE "x"]

MinLongName == 56

ProtoNames ==
  {PadName(k, w) : k \in {1} \cup (MinLongName..MaxNameLen), w \in BOOLEAN}

ProtoFunctions ==
  {DocFunction(ParamsOf(n, D, 1, FALSE, typed), rt, None, None) :
     n \in 0..MaxParams,
     D \in {{}, 1..MaxParams, 1..MAX_ARGS_BEFORE_MULTILINE},
     typed \in BOOLEAN, rt \in {Ty_any, T_int}}


MemberFunction(f) == [tag |-> "Function", f |-> f]

MemberProperty(p) == [tag |-> "Property", p |-> p]

\* The members a container is built from, as (name, member) pairs.
MemberPool ==
  << <<(<<"b">>), MemberProperty(DocProperty(T_int, DocSummaryOnly))>>,
     <<(<<"a", "_", "c">>),
       MemberFunction(DocFunction(ParamsOf(1, {1}, 1, FALSE, TRUE), T_int,
                                  DocSummaryOnly, DocWithDetails))>>,
     <<(<<"a">>), MemberFunction(DocFunction(<<>>, Ty_any, None, None))>>,
     <<(<<"Z">>), MemberProperty(DocProperty(Ty_any, None))>>,
     <<(<<"a", "b">>), MemberProperty(DocProperty(T_str, DocWithDetails))>> >>

RECURSIVE InjectiveSeqs(_, _)
\* The sequences of at most n distinct elements of S.
InjectiveSeqs(S, n) ==
  IF n = 0 THEN {<<>>}
  ELSE LET shorter == InjectiveSeqs(S, n - 1)
       IN shorter
            \cup {q \in {Append(r, x) : r \in shorter, x \in S} :
                    \A i \in 1..(Len(q) - 1) : q[i] /= q[Len(q)]}

\* The member maps of a container: at most MaxMembers members with unique
\* names, in every insertion order.
MemberSeqs ==
  {[i \in 1..Len(q) |-> MemberPool[q[i]]] :
     q \in InjectiveSeqs(1..Len(MemberPool), MaxMembers)}

Constructors ==
  { None,
    Some(DocFunction(ParamsOf(2, {2}, 1, FALSE, TRUE), Ty_any, None, DocSummaryOnly)) }

DocTypes ==
  {[docs |-> d, constructor |-> c, members |-> ms] :
     d \in {None, DocWithDetails}, c \in Constructors, ms \in MemberSeqs}

DocModules ==
  {[docs |-> d,
    members |-> [i \in 1..Len(ms) |-> <<ms[i][1], [tag |-> "Member", member |-> ms[i][2]]>>]] :
     d \in {None, DocWithDetails}, ms \in MemberSeqs}

ItemNames == { <<"T">>, <<"m", "y", "_", "m", "o", "d">> }

TyBasicPool ==
  << TyAnyBasic, T_int[1], T_str[1],
     TyTuple(T_int), TyTuple(T_int \o T_str),
     TyDict(T_str, T_bool), TyDict(T_str, T_int \o T_bool) >>

\* The unions of at most MaxUnion distinct alternatives.
TyUnions ==
  {[i \in 1..Len(q) |-> TyBasicPool[q[i]]] :
     q \in InjectiveSeqs(1..Len(TyBasicPool), MaxUnion) \ {<<>>}}

-----------------------------------------------------------------------------
(* The state machine: an input is drawn, then one entry point is applied  *)
(* to it and its result is kept in out.                                    *)

Init ==
  /\ op = "pending"
  /\ out = <<>>
  /\ \/ arg \in {[kind |-> "docstring", opts |-> o, string |-> d] :
                   o \in DSOpts, d \in OptDocStrings}
     \/ arg \in {[kind |-> "name", name |-> n] : n \in EscNames}
     \/ arg \in {[kind |-> "property", name |-> n, property |-> DocProperty(t, d)] :
                   n \in PropNames, t \in PropTypes, d \in OptDocStrings}
     \/ arg \in {[kind |-> "params", params |-> doc_params_with_starred_names(ps)] :
                   ps \in ParamLists}
     \/ arg \in {[kind |-> "param", name |-> starred_name(ps[1]), item |-> ps[1]] :
                   ps \in {q \in ParamLists : Len(q) = 1}}
     \/ arg \in {[kind |-> "prototype", name |-> n, function |-> f] :
                   n \in ProtoNames, f \in ProtoFunctions}
     \/ arg \in {[kind |-> "function", name |-> n, function |-> f, include_header |-> h] :
                   n \in FuncNames, f \in Functions, h \in BOOLEAN}
     \/ arg \in {[kind |-> "member", name |-> MemberPool[i][1], member |-> MemberPool[i][2]] :
                   i \in 1..Len(MemberPool)}
     \/ arg \in {[kind |-> "members", name |-> <<"c", "1">>, docs |-> d,
                  prefix |-> px, members |-> ms, after_summary |-> a] :
                   d \in {None, DocSummaryOnly}, px \in {<<>>, <<"T", ".">>},
                   ms \in MemberSeqs, a \in {None, Some(<<"F", "i", "r", "s", "t">>)}}
     \/ arg \in {[kind |-> "type", name |-> <<"T">>, prefix |-> <<"T", ".">>, t |-> t] :
                   t \in DocTypes}
     \/ arg \in {[kind |-> "item", name |-> n, item |-> [tag |-> "Type", o |-> t]] :
                   n \in ItemNames, t \in DocTypes}
     \/ arg \in {[kind |-> "item", name |-> n, item |-> [tag |-> "Module", m |-> m]] :
                   n \in ItemNames, m \in DocModules}
     \/ arg \in {[kind |-> "item", name |-> MemberPool[i][1],
                  item |-> [tag |-> "Member", member |-> MemberPool[i][2]]] :
                   i \in 1..Len(MemberPool)}
     \/ arg \in {[kind |-> "ty", ty |-> t] : t \in TyUnions}

\* A call of render_doc_string.
RenderDocString ==
  /\ op = "pending"
  /\ arg.kind = "docstring"
  /\ op' = "render_doc_string"
  /\ out' = render_doc_string(arg.opts, arg.string)
  /\ UNCHANGED arg

\* A call of escape_name.
EscapeName ==
  /\ op = "pending"
  /\ arg.kind = "name"
  /\ op' = "escape_name"
  /\ out' = escape_name(arg.name)
  /\ UNCHANGED arg

\* A call of render_property.
RenderProperty ==
  /\ op = "pending"
  /\ arg.kind = "property"
  /\ op' = "render_property"
  /\ out' = render_property(arg.name, arg.property)
  /\ UNCHANGED arg

\* A call of render_function_parameters.
RenderFunctionParameters ==
  /\ op = "pending"
  /\ arg.kind = "params"
  /\ op' = "render_function_parameters"
  /\ out' = render_function_parameters(arg.params)
  /\ UNCHANGED arg

\* A call of render_doc_param.
RenderDocParam ==
  /\ op = "pending"
  /\ arg.kind = "param"
  /\ op' = "render_doc_param"
  /\ out' = render_doc_param(arg.name, arg.item)
  /\ UNCHANGED arg

\* A call of render_function_prototype.
RenderFunctionPrototype ==
  /\ op = "pending"
  /\ arg.kind = "prototype"
  /\ op' = "render_function_prototype"
  /\ out' = render_function_prototype(arg.name, arg.function)
  /\ UNCHANGED arg

\* A call of render_function.
RenderFunction ==
  /\ op = "pending"
  /\ arg.kind = "function"
  /\ op' = "render_function"
  /\ out' = render_function(arg.name, arg.function, arg.include_header)
  /\ UNCHANGED arg

\* A call of render_doc_member.
RenderDocMember ==
  /\ op = "pending"
  /\ arg.kind = "member"
  /\ op' = "render_doc_member"
  /\ out' = render_doc_member(arg.name, arg.member)
  /\ UNCHANGED arg

\* A call of render_members.
RenderMembers ==
  /\ op = "pending"
  /\ arg.kind = "members"
  /\ op' = "render_members"
  /\ out' = render_members(arg.name, arg.docs, arg.prefix, arg.members,
                         arg.after_summary)
  /\ UNCHANGED arg

\* A call of render_doc_type.
RenderDocType ==
  /\ op = "pending"
  /\ arg.kind = "type"
  /\ op' = "render_doc_type"
  /\ out' = render_doc_type(arg.name, arg.prefix, arg.t)
  /\ UNCHANGED arg

\* A call of render_doc_item.
RenderDocItem ==
  /\ op = "pending"
  /\ arg.kind = "item"
  /\ op' = "render_doc_item"
  /\ out' = render_doc_item(arg.name, arg.item)
  /\ UNCHANGED arg

\* A call of unpack_args_item_ty.
UnpackArgsItemTy ==
  /\ op = "pending"
  /\ arg.kind = "ty"
  /\ op' = "unpack_args_item_ty"
  /\ out' = unpack_args_item_ty(arg.ty)
  /\ UNCHANGED arg

\* A call of unpack_kwargs_value_ty.
UnpackKwargsValueTy ==
  /\ op = "pending"
  /\ arg.kind = "ty"
  /\ op' = "unpack_kwargs_value_ty"
  /\ out' = unpack_kwargs_value_ty(arg.ty)
  /\ UNCHANGED arg

Next ==
  \/ RenderDocString
  \/ EscapeName
  \/ RenderProperty
  \/ RenderFunctionParameters
  \/ RenderDocParam
  \/ RenderFunctionPrototype
  \/ RenderFunction
  \/ RenderDocMember
  \/ RenderMembers
  \/ RenderDocType
  \/ RenderDocItem
  \/ UnpackArgsItemTy
  \/ UnpackKwargsValueTy

Spec == Init /\ [][Next]_vars

-----------------------------------------------------------------------------
(* Vocabulary of the properties. *)

IsPrefixAt(t, p, i) ==
  /\ i >= 1
  /\ i + Len(p) - 1 <= Len(t)
  /\ \A k \in 1..Len(p) : t[i + k - 1] = p[k]

StartsWith(t, p) == IsPrefixAt(t, p, 1)

EndsWith(t, p) == IsPrefixAt(t, p, Len(t) - Len(p) + 1)

\* The places where p occurs in t.
Occurrences(t, p) == {i \in 1..Len(t) : IsPrefixAt(t, p, i)}

Contains(t, p) == Occurrences(t, p) /= {}

CountChar(t, c) == Cardinality({i \in 1..Len(t) : t[i] = c})

NotBackslash(c) == c /= "\\"

\* h is name with every underscore written as backslash, underscore: it has
\* one escape per underscore of name, no other backslash and no bare
\* underscore.
IsEscapedForm(h, name) ==
  /\ Len(h) = Len(name) + CountChar(name, "_")
  /\ SelectSeq(h, NotBackslash) = name
  /\ \A i \in 1..Len(h) : h[i] = "_" => i > 1 /\ h[i - 1] = "\\"
  /\ \A i \in 1..Len(h) : h[i] = "\\" => i < Len(h) /\ h[i + 1] = "_"

\* The places of the line breaks of a text, in increasing order.
NewlinesOf(t) ==
  LET IsBreak(i) == t[i] = "\n"
  IN SelectSeq([i \in 1..Len(t) |-> i], IsBreak)

LinesBetween(t, nl) ==
  [k \in 1..(Len(nl) + 1) |->
     SubSeq(t, IF k = 1 THEN 1 ELSE nl[k - 1] + 1,
               IF k = Len(nl) + 1 THEN Len(t) ELSE nl[k] - 1)] \o <<>>

\* The lines of a text, an empty last one included.
LinesOf(t) == LinesBetween(t, NewlinesOf(t))

\* The text of a line after a prefix of n characters.
After(l, n) == SubSeq(l, n + 1, Len(l))

TwoNewlines == <<"\n", "\n">>

FenceOpen == <<BQ, BQ, BQ, "p", "y", "t", "h", "o", "n">>

FenceClose == <<BQ, BQ, BQ>>

Rule == <<"\n", "\n", "-", "-", "-", "\n", "\n">>

H2 == <<"#", "#", " ">>

\* Summary and details of an Option<DocString>, as Options.
SummaryOf(d) == IF d = None THEN None ELSE Some(d[1].summary)

DetailsOf(d) == IF d = None THEN None ELSE d[1].details

\* Summary and details joined by a blank line.
CombinedOf(d) ==
  IF d[1].details = None THEN d[1].summary
  ELSE d[1].summary \o TwoNewlines \o d[1].details[1]

-----------------------------------------------------------------------------
(* C8 *)

\* C8: render_doc_string in Combined mode returns nothing only when there
\* is no DocString, the summary alone when there are no details, and
\* summary, blank line, details when there are both; in Summary mode it
\* returns the summary whenever a DocString exists; in Details mode it
\* returns the details, or nothing when there are none, even if a summary
\* exists.
C8_DocStringModes ==
  op = "render_doc_string" =>
    /\ arg.opts = "Combined" =>
         /\ (out = None) <=> (arg.string = None)
         /\ arg.string /= None /\ arg.string[1].details = None =>
              out = <<arg.string[1].summary>>
         /\ arg.string /= None /\ arg.string[1].details /= None =>
              out = <<arg.string[1].summary \o <<"\n", "\n">> \o arg.string[1].details[1]>>
    /\ arg.opts = "Summary" =>
         IF arg.string = None THEN out = None ELSE out = <<arg.string[1].summary>>
    /\ arg.opts = "Details" =>
         IF arg.string = None \/ arg.string[1].details = None THEN out = None
         ELSE out = <<arg.string[1].details[1]>>

\* A summary without details, rendered in Details mode, gives nothing.
C8_Witness ==
  /\ op = "render_doc_string"
  /\ arg.opts = "Details"
  /\ arg.string /= None
  /\ arg.string[1].details = None
  /\ out = None

-----------------------------------------------------------------------------
(* C5 *)

\* The first line of the rendered text.
Heading == LinesOf(out)[1]

\* C5: every name in a heading outside a code span has each underscore
\* escaped: the "## " heading of a property or a function, and the "# "
\* heading of a module or member container (the heading of a type shows
\* the name in a code span, unescaped).
C5_HeadingsEscaped ==
  /\ op \in {"render_property", "render_doc_member"}
       \/ (op = "render_function" /\ arg.include_header)
       \/ (op = "render_doc_item" /\ arg.item.tag = "Member") =>
       /\ StartsWith(Heading, H2)
       /\ IsEscapedForm(After(Heading, 3), arg.name)
  /\ op = "render_members" \/ (op = "render_doc_item" /\ arg.item.tag = "Module") =>
       /\ StartsWith(Heading, <<"#", " ">>)
       /\ IsEscapedForm(After(Heading, 2), arg.name)
  /\ op = "render_doc_item" /\ arg.item.tag = "Type" =>
       Heading = <<"#", " ", BQ>> \o arg.name \o <<BQ, " ", "t", "y", "p", "e">>

-----------------------------------------------------------------------------
(* C10 *)

MaxSizeExample ==
  <<"#", "#", " ", "m", "a", "x", "\\", "_", "s", "i", "z", "e", "\n", "\n",
    BQ, BQ, BQ, "p", "y", "t", "h", "o", "n", "\n",
    "m", "a", "x", "_", "s", "i", "z", "e", ":", " ", "i", "n", "t", "\n",
    BQ, BQ, BQ, "\n", "\n",
    "M", "a", "x", "i", "m", "u", "m", " ", "s", "i", "z", "e", ".">>

IsMaxSizeInput ==
  /\ arg.name = <<"m", "a", "x", "_", "s", "i", "z", "e">>
  /\ arg.property.typ = T_int
  /\ arg.property.docs
       = Some(DocString(<<"M", "a", "x", "i", "m", "u", "m", " ", "s", "i", "z", "e", ".">>, None))

\* The text after the first five lines (heading, blank, fence, prototype,
\* fence) of a rendered property.
AfterPropertyBlock(t, ls) ==
  After(t, Len(ls[1]) + Len(ls[2]) + Len(ls[3]) + Len(ls[4]) + Len(ls[5]) + 4)

\* C10: render_property emits "## " and the escaped name, a blank line, the
\* fenced code block holding "name: type" with the unescaped name, and then
\* the summary and the details, in that order, each after a blank line and
\* each exactly when the DocString has it; max_size: int with the summary
\* "Maximum size." renders as MaxSizeExample.
C10_Property ==
  op = "render_property" =>
    /\ Len(LinesOf(out)) >= 5
    /\ StartsWith(LinesOf(out)[1], H2)
    /\ IsEscapedForm(After(LinesOf(out)[1], 3), arg.name)
    /\ LinesOf(out)[2] = <<>>
    /\ LinesOf(out)[3] = FenceOpen
    /\ LinesOf(out)[4] = arg.name \o <<":", " ">> \o ty_display(arg.property.typ)
    /\ LinesOf(out)[5] = FenceClose
    /\ AfterPropertyBlock(out, LinesOf(out))
         = (IF SummaryOf(arg.property.docs) = None THEN <<>>
            ELSE TwoNewlines \o SummaryOf(arg.property.docs)[1])
             \o (IF DetailsOf(arg.property.docs) = None THEN <<>>
                 ELSE TwoNewlines \o DetailsOf(arg.property.docs)[1])
    /\ IsMaxSizeInput => out = MaxSizeExample

C10_Witness ==
  /\ op = "render_property"
  /\ IsMaxSizeInput
  /\ out = MaxSizeExample

-----------------------------------------------------------------------------
(* C4 *)

RECURSIVE IndentBreaks(_)
\* A text with two spaces added after each of its line breaks.
IndentBreaks(t) ==
  IF t = <<>> THEN <<>>
  ELSE (IF Head(t) = "\n" THEN <<"\n", " ", " ">> ELSE <<Head(t)>>) \o IndentBreaks(Tail(t))

\* The bullet of a documented parameter.
BulletOf(name, p) ==
  <<"*", " ", BQ>> \o name \o <<BQ, ":", " ">> \o IndentBreaks(CombinedOf(p.docs)) \o <<"\n">>

IsDocumented(np) == np[2].docs /= None

RECURSIVE BulletsOf(_)
BulletsOf(nps) ==
  IF nps = <<>> THEN <<>>
  ELSE BulletOf(Head(nps)[1], Head(nps)[2]) \o BulletsOf(Tail(nps))

-----------------------------------------------------------------------------
(* C3 *)

ParametersHeading == <<"#", "#", "#", "#", " ", "P", "a", "r", "a", "m", "e", "t", "e", "r", "s">>

ReturnsHeading == <<"#", "#", "#", "#", " ", "R", "e", "t", "u", "r", "n", "s">>

DetailsHeading == <<"#", "#", "#", "#", " ", "D", "e", "t", "a", "i", "l", "s">>

\* The lines of ls that are the text l.
LinesEqual(ls, l) == {k \in 1..Len(ls) : ls[k] = l}

\* The line of ls that is the text l (0 when there is none).
LineOf(ls, l) == IF LinesEqual(ls, l) = {} THEN 0 ELSE CHOOSE k \in LinesEqual(ls, l) : TRUE

\* The number of empty lines right before line k.
BlankBefore(ls, k) ==
  CHOOSE n \in 0..(k - 1) :
    /\ \A j \in 1..n : ls[k - j] = <<>>
    /\ n = k - 1 \/ ls[k - n - 1] /= <<>>

HasParameterDocs(f) == \E i \in 1..Len(f.params) : f.params[i].docs /= None

\* The sections of a rendered function f whose lines are ls: c is the line
\* closing the code block, p, r and d are the lines of the three headings,
\* t is the first line of the details.  after_list is the number of empty
\* lines before the section that follows the list of parameters.
SectionsLaidOut(f, ls, c, p, r, d, t, after_list) ==
  /\ c > 0
  /\ Cardinality(LinesEqual(ls, ParametersHeading)) <= 1
  /\ Cardinality(LinesEqual(ls, ReturnsHeading)) <= 1
  /\ Cardinality(LinesEqual(ls, DetailsHeading)) <= 1
  /\ (p > 0) <=> HasParameterDocs(f)
  /\ (r > 0) <=> (f.ret.docs /= None)
  /\ (d > 0) <=> (DetailsOf(f.docs) /= None /\ (HasParameterDocs(f) \/ f.ret.docs /= None))
  /\ f.docs = None => c = Len(ls) \/ (p > c \/ r > c)
  /\ f.docs /= None =>
       /\ ls[c + 2] = f.docs[1].summary
       /\ BlankBefore(ls, c + 2) = 1
       /\ p > 0 => p > c + 2
       /\ r > 0 => r > c + 2
  /\ p > 0 =>
       /\ BlankBefore(ls, p) = 1
       /\ ls[p + 1] = <<>>
       /\ StartsWith(ls[p + 2], <<"*", " ", BQ>>)
  /\ r > 0 =>
       /\ r > p
       /\ BlankBefore(ls, r) = (IF p > 0 THEN after_list ELSE 1)
       /\ ls[r + 1] = <<>>
       /\ ls[r + 2] = LinesOf(CombinedOf(f.ret.docs))[1]
  /\ DetailsOf(f.docs) /= None =>
       /\ EndsWith(ls, LinesOf(DetailsOf(f.docs)[1]))
       /\ IF d > 0
          THEN /\ d > p /\ d > r
               /\ BlankBefore(ls, d) = (IF p > 0 /\ r = 0 THEN after_list ELSE 1)
               /\ ls[d + 1] = <<>>
               /\ t = d + 2
          ELSE /\ BlankBefore(ls, t) = 1
               /\ t = c + 4
  /\ DetailsOf(f.docs) = None => d = 0

SectionsOfOut(after_list) ==
  SectionsLaidOut(arg.function, LinesOf(out),
                  LineOf(LinesOf(out), FenceClose),
                  LineOf(LinesOf(out), ParametersHeading),
                  LineOf(LinesOf(out), ReturnsHeading),
                  LineOf(LinesOf(out), DetailsHeading),
                  IF DetailsOf(arg.function.docs) = None THEN 0
                  ELSE Len(LinesOf(out)) - Len(LinesOf(DetailsOf(arg.function.docs)[1])) + 1,
                  after_list)

\* C3 as stated: after the code block render_function emits the summary,
\* "#### Parameters", "#### Returns" and the details, in that order, each
\* only if present and each after exactly one empty line; "#### Details"
\* is emitted if and only if there are details and Parameters or Returns
\* was emitted, else the details follow an empty line with no heading.
C3_ExactlyOneBlankLine == op = "render_function" => SectionsOfOut(1)

\* C3 as amended: the same, but the section that follows the list of
\* parameters comes after two empty lines, since the list ends with a line
\* break of its own.
C3_Sections == op = "render_function" => SectionsOfOut(2)

\* All four sections are present, under their headings.
C3_Witness ==
  /\ op = "render_function"
  /\ HasParameterDocs(arg.function)
  /\ arg.function.ret.docs /= None
  /\ DetailsOf(arg.function.docs) /= None
  /\ LineOf(LinesOf(out), DetailsHeading) > LineOf(LinesOf(out), ReturnsHeading)
  /\ LineOf(LinesOf(out), ReturnsHeading) > LineOf(LinesOf(out), ParametersHeading)
  /\ BlankBefore(LinesOf(out), LineOf(LinesOf(out), ReturnsHeading)) = 2

-----------------------------------------------------------------------------
(* C1 *)

\* The prototype of a function on one line.
SingleLineOf(name, f) ==
  <<"d", "e", "f", " ">> \o name \o <<"(">> \o render_code(f.params, None) \o <<")">>
    \o raw_type_prefix(<<" ", "-", ">", " ">>, f.ret.typ)

IsMultiLine(t) == CountChar(t, "\n") > 0

NumDocumented(f) == Cardinality({i \in 1..Len(f.params) : f.params[i].docs /= None})

\* C1 as stated: render_function_prototype uses the multi-line form exactly
\* when more than 3 parameters are documented or the single-line rendering
\* is longer than 80 characters, however many undocumented parameters
\* there are.
C1_DocumentedParameters ==
  op = "render_function_prototype" =>
    (IsMultiLine(out) <=>
       \/ NumDocumented(arg.function) > 3
       \/ Len(SingleLineOf(arg.name, arg.function)) > 80)

\* C1 as amended: render_function_prototype uses the multi-line form
\* exactly when the function has more than 3 parameters, documented or
\* not, or the single-line rendering is longer than 80 bytes; the other
\* functions render as the single line, and the multi-line form has one
\* line per parameter between "def name(" and ")" with the return type.
C1_AllParameters ==
  op = "render_function_prototype" =>
    /\ IsMultiLine(out) <=>
         \/ Len(arg.function.params) > 3
         \/ str_len(SingleLineOf(arg.name, arg.function)) > 80
    /\ ~IsMultiLine(out) => out = SingleLineOf(arg.name, arg.function)
    /\ IsMultiLine(out) =>
         /\ CountChar(out, "\n") = Len(arg.function.params) + 1
         /\ StartsWith(out, <<"d", "e", "f", " ">> \o arg.name \o <<"(", "\n">>)
         /\ LinesOf(out)[Len(arg.function.params) + 2]
              = <<")">> \o raw_type_prefix(<<" ", "-", ">", " ">>, arg.function.ret.typ)

\* Four parameters, none of them documented, and a short single line: the
\* prototype is split all the same.
C1_Witness ==
  /\ op = "render_function_prototype"
  /\ Len(arg.function.params) = 4
  /\ NumDocumented(arg.function) = 0
  /\ str_len(SingleLineOf(arg.name, arg.function)) < 40
  /\ IsMultiLine(out)

-----------------------------------------------------------------------------
(* C7 *)

IsFourUndocumented ==
  /\ arg.include_header
  /\ arg.name = <<"f">>
  /\ Len(arg.function.params) = 4
  /\ ~HasParameterDocs(arg.function)
  /\ arg.function.ret.typ = Ty_any
  /\ arg.function.ret.docs = None
  /\ arg.function.docs = None

\* C7: a function f with 4 parameters, none documented, an unconstrained
\* return type and no docs renders as the heading "## f" and a multi-line
\* prototype without "->", and no Parameters, Returns or Details section.
C7_FourUndocumented ==
  op = "render_function" /\ IsFourUndocumented =>
    /\ Len(LinesOf(out)) = 10
    /\ LinesOf(out)[1] = <<"#", "#", " ", "f">>
    /\ LinesOf(out)[2] = <<>>
    /\ LinesOf(out)[3] = FenceOpen
    /\ LinesOf(out)[4] = <<"d", "e", "f", " ", "f", "(">>
    /\ \A k \in 5..8 :
         /\ StartsWith(LinesOf(out)[k], <<" ", " ", " ", " ">>)
         /\ EndsWith(LinesOf(out)[k], <<",">>)
    /\ LinesOf(out)[9] = <<")">>
    /\ LinesOf(out)[10] = FenceClose
    /\ ~Contains(out, <<"-", ">">>)
    /\ ~Contains(out, <<"#", "#", "#", "#">>)

C7_Witness ==
  /\ op = "render_function"
  /\ IsFourUndocumented
  /\ Len(LinesOf(out)) = 10

-----------------------------------------------------------------------------
(* C2 and C9 *)

IsContainerCall ==
  \/ op \in {"render_members", "render_doc_type"}
  \/ op = "render_doc_item" /\ arg.item.tag \in {"Module", "Type"}

IsTypeCall ==
  \/ op = "render_doc_type"
  \/ op = "render_doc_item" /\ arg.item.tag = "Type"

\* The members of the rendered container, in the order they are supplied.
ContainerMembers ==
  CASE op = "render_members" -> arg.members
    [] op = "render_doc_type" -> arg.t.members
    [] op = "render_doc_item" /\ arg.item.tag = "Type" -> arg.item.o.members
    [] op = "render_doc_item" /\ arg.item.tag = "Module" -> arg.item.m.members

ContainerPrefix ==
  CASE op \in {"render_members", "render_doc_type"} -> arg.prefix
    [] op = "render_doc_item" /\ arg.item.tag = "Type" -> arg.name \o <<".">>
    [] op = "render_doc_item" /\ arg.item.tag = "Module" -> <<>>

\* 1 when a block is put before the member blocks, else 0.
ContainerLead ==
  CASE op = "render_members" -> Len(arg.after_summary)
    [] op = "render_doc_type" -> Len(arg.t.constructor)
    [] op = "render_doc_item" /\ arg.item.tag = "Type" -> Len(arg.item.o.constructor)
    [] op = "render_doc_item" /\ arg.item.tag = "Module" -> 0

\* The places of the rules of a text, in increasing order.
RulesOf(t) ==
  LET IsRule(i) == IsPrefixAt(t, Rule, i)
  IN SelectSeq([i \in 1..Len(t) |-> i], IsRule)

PiecesBetween(t, at) ==
  [k \in 1..(Len(at) + 1) |->
     SubSeq(t, IF k = 1 THEN 1 ELSE at[k - 1] + Len(Rule),
               IF k = Len(at) + 1 THEN Len(t) ELSE at[k] - 1)] \o <<>>

\* The pieces of a text between its rules.
PiecesOf(t) == PiecesBetween(t, RulesOf(t))

IsH2Line(l) == StartsWith(l, H2)

\* The "## " headings of a text.
HeadingsOf(t) == SelectSeq(LinesOf(t), IsH2Line)

\* The place of a member among the members sorted by name.
RankOf(members, i) ==
  1 + Cardinality({j \in 1..Len(members) : str_cmp_less(members[j][1], members[i][1])})

MembersInOrder(members, prefix, lead, pieces) ==
  /\ Len(pieces) = (IF Len(members) + lead = 0 THEN 1 ELSE Len(members) + lead)
  /\ \A k \in 1..Len(pieces) : pieces[k] /= <<>>
  /\ \A i \in 1..Len(members) :
       /\ HeadingsOf(pieces[RankOf(members, i) + lead])
            = << H2 \o escape_name(prefix \o members[i][1]) >>
       /\ IF RankOf(members, i) + lead > 1
          THEN StartsWith(pieces[RankOf(members, i) + lead], H2)
          ELSE Contains(pieces[1], TwoNewlines \o H2)

\* C2: render_members emits the member blocks in ascending byte order of
\* the member names, whatever the order they are supplied in, with one
\* rule "\n\n---\n\n" between two consecutive blocks and none before the
\* first block or after the last.
C2_MembersSorted ==
  IsContainerCall =>
    MembersInOrder(ContainerMembers, ContainerPrefix, ContainerLead, PiecesOf(out))

\* Three members supplied in descending order of their names.
C2_Witness ==
  /\ op = "render_members"
  /\ Len(arg.members) = 3
  /\ str_cmp_less(arg.members[3][1], arg.members[2][1])
  /\ str_cmp_less(arg.members[2][1], arg.members[1][1])
  /\ Len(PiecesOf(out)) = 3 + Len(arg.after_summary)

\* The names of the "## " headings of a text, unescaped.
UnescapedNames(headings) ==
  [k \in 1..Len(headings) |-> SelectSeq(After(headings[k], 3), NotBackslash)] \o <<>>

HeadingNamesOf(t) == UnescapedNames(HeadingsOf(t))

ConstructorFirst(members, prefix, lead, pieces, names) ==
  /\ lead = 1 =>
       /\ HeadingsOf(pieces[1]) = <<>>
       /\ \E k \in 1..(Len(LinesOf(pieces[1])) - 1) :
            /\ LinesOf(pieces[1])[k] = FenceOpen
            /\ StartsWith(LinesOf(pieces[1])[k + 1], <<"d", "e", "f", " ">>)
       /\ Len(pieces) = Len(members) + 1
       /\ \A k \in 2..Len(pieces) : StartsWith(pieces[k], H2)
  /\ lead = 0 /\ members /= <<>> =>
       /\ Len(HeadingsOf(pieces[1])) = 1
       /\ \A i \in 1..Len(members) :
            ~str_cmp_less(members[i][1], After(names[1], Len(prefix)))
  /\ Len(names) = Len(members)
  /\ \A k \in 1..Len(names) :
       /\ StartsWith(names[k], prefix)
       /\ \E i \in 1..Len(members) : names[k] = prefix \o members[i][1]
       /\ k > 1 => str_cmp_less(names[k - 1], names[k])

\* C9: a composite type renders as a member container whose first block is
\* the constructor, when there is one, rendered as a function without a
\* "## " heading, before all member blocks and joined to them by the same
\* rule; the member blocks follow in sorted order, each under the name
\* "container.member"; without a constructor the first block is the first
\* sorted member.
C9_ConstructorFirst ==
  IsTypeCall =>
    ConstructorFirst(ContainerMembers, ContainerPrefix, ContainerLead,
                     PiecesOf(out), HeadingNamesOf(out))

\* A type with a constructor and three members, rendered by name.
C9_Witness ==
  /\ op = "render_doc_item"
  /\ arg.item.tag = "Type"
  /\ arg.item.o.constructor /= None
  /\ Len(arg.item.o.members) = 3
  /\ Len(PiecesOf(out)) = 4
  /\ HeadingsOf(PiecesOf(out)[1]) = <<>>

-----------------------------------------------------------------------------
(* C6 *)

\* What each alternative of the union ty contributes: its element type
\* (for the tag Tuple) or its value type (for the tag Dict) when it has the
\* tag, the unconstrained type when it has not.
ContributionsOf(ty, tag) ==
  [i \in 1..Len(ty) |->
     IF ty[i].tag /= tag THEN <<TyAnyBasic>>
     ELSE IF tag = "Tuple" THEN ty[i].item ELSE ty[i].value] \o <<>>

RECURSIVE Flattened(_)
Flattened(tys) == IF tys = <<>> THEN <<>> ELSE Head(tys) \o Flattened(Tail(tys))

FirstPlace(xs, x) == CHOOSE i \in 1..Len(xs) : xs[i] = x /\ \A j \in 1..(i - 1) : xs[j] /= x

\* res holds the elements of xs, each once, in the order of their first
\* appearance in xs.
IsStableUnion(res, xs) ==
  /\ {res[i] : i \in 1..Len(res)} = {xs[i] : i \in 1..Len(xs)}
  /\ \A i, j \in 1..Len(res) : i < j => res[i] /= res[j]
  /\ \A i, j \in 1..Len(res) : i < j => FirstPlace(xs, res[i]) < FirstPlace(xs, res[j])

SequenceAndMapping == <<TyTuple(T_int), TyDict(T_str, T_bool)>>

\* C6: unpack_args_item_ty and unpack_kwargs_value_ty take from every
\* alternative of the union one contribution (the element type of a tuple,
\* respectively the value type of a dict, and the unconstrained type from
\* any other alternative) and return the union of the contributions, each
\* alternative once, in the order of first appearance; for tuple of int or
\* dict of str to bool they give int or unconstrained, respectively
\* unconstrained or bool.
C6_Projections ==
  /\ op = "unpack_args_item_ty" =>
       /\ IsStableUnion(out, Flattened(ContributionsOf(arg.ty, "Tuple")))
       /\ arg.ty = SequenceAndMapping => out = T_int \o <<TyAnyBasic>>
  /\ op = "unpack_kwargs_value_ty" =>
       /\ IsStableUnion(out, Flattened(ContributionsOf(arg.ty, "Dict")))
       /\ arg.ty = SequenceAndMapping => out = <<TyAnyBasic>> \o T_bool

C6_Witness ==
  /\ op = "unpack_args_item_ty"
  /\ arg.ty = SequenceAndMapping
  /\ out = T_int \o <<TyAnyBasic>>

====
